---- MODULE Spec2Model ----
(***************************************************************************)
(* Model of monitor.c, the per-user CPU usage monitor.                     *)
(*                                                                         *)
(* The program keeps one PidSlot per process identifier and one UserEntry  *)
(* per owner.  do_sample walks /proc: every readdir result is one step of  *)
(* the walk, and what /proc answers (the entry's name, the outcome of      *)
(* read_proc_stat and of read_proc_uid) is the environment's choice at     *)
(* that step.  main drives one baseline walk, then `duration` walks, then  *)
(* sorts and prints.                                                       *)
(*                                                                         *)
(* Counters are kept far below 2^63 / 1000, so the long long arithmetic of *)
(* the conversions never overflows and is modelled on the integers.        *)
(***************************************************************************)
EXTENDS Integers, Sequences, FiniteSets, TLC

(***************************************************************************)
(* Bounds of the model.                                                    *)
(***************************************************************************)
\* capacity of user_table; monitor.c uses 4096, scaled so that the table fills
MAX_USERS == 1
\* largest utime+stime a /proc/<pid>/stat read answers
MaxJiffies == 2
\* largest duration given on the command line
MaxDuration == 2
\* number of do_sample calls the stand-alone driver of the sampling core makes
MaxCalls == 2
\* entries of user_table when the report or find_user is driven on its own
TableUsers == 3

(***************************************************************************)
(* Program constants.                                                      *)
(***************************************************************************)
PID_MAX == 65536
\* (uid_t)-1, what read_proc_uid answers when stat() fails; written as the
\* integer -1, which no uid of Uids equals
UID_ERR == -1
\* what read_proc_stat answers on any error
STAT_ERR == -1
\* hz when sysconf(_SC_CLK_TCK) reports nothing usable
HZ_FALLBACK == 100

(***************************************************************************)
(* The environment: what /proc, sysconf and the command line can hold.     *)
(***************************************************************************)
DigitVal == [c \in {"0", "1", "2", "3", "4", "5", "6", "7", "8", "9"} |->
               CASE c = "0" -> 0 [] c = "1" -> 1 [] c = "2" -> 2 [] c = "3" -> 3
                 [] c = "4" -> 4 [] c = "5" -> 5 [] c = "6" -> 6 [] c = "7" -> 7
                 [] c = "8" -> 8 [] c = "9" -> 9]

DigitChars == <<"0", "1", "2", "3", "4", "5", "6", "7", "8", "9">>

\* the decimal text of n >= 0, one character per element
RECURSIVE DecStr(_)
DecStr(n) == IF n < 10 THEN <<DigitChars[n + 1]>>
             ELSE Append(DecStr(n \div 10), DigitChars[(n % 10) + 1])

\* names readdir("/proc") can return
DirNames == { DecStr(0), DecStr(1), DecStr(PID_MAX - 1), DecStr(PID_MAX),
              <<"s", "e", "l", "f">>, <<"1", "x">> }

\* owners a process can have: root and an account the password database lacks
Uids == {0, 1000}

\* results of read_proc_stat and read_proc_uid
StatResults == {STAT_ERR} \cup (0 .. MaxJiffies)
UidResults == {UID_ERR} \cup Uids

\* results of sysconf(_SC_CLK_TCK)
SysconfResults == {-1, 0, 100, 1024}

\* the vertical tab, character 11, written as the character itself
VT == ""

\* the command line after argv[0]
Argvs == { <<>>, <<DecStr(1), DecStr(2)>>,
           <<DecStr(0)>>, <<<<"-", "1">>>>, <<<<"x">>>>, <<<<"1", "x">>>>,
           <<<<" ", VT, "1">>>>,
           <<<<"2", "1", "4", "7", "4", "8", "3", "6", "4", "8">>>>,
           <<DecStr(MaxDuration)>> }

\* the password database getpwuid consults
Passwd == [u \in {0} |-> "root"]

\* a password database that knows no owner: getpwuid answers NULL
EmptyPasswd == [u \in {} |-> ""]

\* the password databases a second run of the sampling core may find
PasswdDbs == {Passwd, EmptyPasswd}

(***************************************************************************)
(* Helpers of the program.                                                 *)
(***************************************************************************)
isdigit(c) == c \in DOMAIN DigitVal

\* C's integer division, truncating toward zero
CDiv(a, b) == IF (a >= 0) = (b > 0) THEN a \div b ELSE -((-a) \div b)

\* the white space strtol skips: isspace of the C locale
isspace(c) == c \in {" ", "\t", "\n", VT, "\f", "\r"}

\* the first position from k on that holds no white space
RECURSIVE SkipSpace(_, _)
SkipSpace(s, k) ==
    IF k > Len(s) \/ ~isspace(s[k]) THEN k ELSE SkipSpace(s, k + 1)

\* atoi is (int) strtol(s, NULL, 10).  strtol's magnitude is an unsigned long
\* of 64 bits, kept as four limbs of 16 bits, least significant first, and a
\* flag raised when it passes 2^64
Limb == 65536
ZeroLimbs == [l |-> <<0, 0, 0, 0>>, over |-> 0]

\* acc * 10 + d
MulAdd(acc, d) ==
    LET t1 == acc.l[1] * 10 + d
        t2 == acc.l[2] * 10 + t1 \div Limb
        t3 == acc.l[3] * 10 + t2 \div Limb
        t4 == acc.l[4] * 10 + t3 \div Limb
    IN  [l    |-> <<t1 % Limb, t2 % Limb, t3 % Limb, t4 % Limb>>,
         over |-> IF acc.over = 1 \/ t4 \div Limb > 0 THEN 1 ELSE 0]

\* the digits from position k up to the first character that is none; the
\* magnitude so far is taken as a value, a, before the next digit is added
RECURSIVE AtoiDigits(_, _, _)
AtoiDigits(s, k, acc) ==
    CHOOSE r \in { IF k > Len(s) \/ ~isdigit(s[k]) THEN a
                   ELSE AtoiDigits(s, k + 1, MulAdd(a, DigitVal[s[k]])) :
                   a \in {acc} } : TRUE

\* the int whose 32 bits are the limbs lo (low) and hi (high)
ToInt(lo, hi) == IF hi >= Limb \div 2 THEN (hi - Limb) * Limb + lo ELSE hi * Limb + lo

\* atoi: white space, an optional sign, digits up to the first character that
\* is none.  A magnitude outside long makes strtol answer LONG_MAX or LONG_MIN;
\* the conversion to int keeps the low 32 bits.
atoi(s) ==
    LET k   == SkipSpace(s, 1)
        neg == k <= Len(s) /\ s[k] = "-"
        j   == IF k <= Len(s) /\ s[k] \in {"-", "+"} THEN k + 1 ELSE k
        m   == AtoiDigits(s, j, ZeroLimbs)
        big == m.over = 1 \/ m.l[4] >= Limb \div 2
    IN  IF neg
        THEN IF big THEN 0
             ELSE IF m.l[1] = 0 THEN ToInt(0, (Limb - m.l[2]) % Limb)
             ELSE ToInt(Limb - m.l[1], Limb - 1 - m.l[2])
        ELSE IF big THEN -1
             ELSE ToInt(m.l[1], m.l[2])

\* pid * 10 + d in an int: past INT_MAX the builds keep the low 32 bits.  The
\* int is taken apart into two limbs of 16 bits for the multiplication
IntMulAdd(pid, d) ==
    LET t1 == (pid % Limb) * 10 + d
        t2 == ((pid \div Limb) % Limb) * 10 + t1 \div Limb
    IN  ToInt(t1 % Limb, t2 % Limb)

\* the digit loop of do_sample over d_name: <<valid, pid>>; pid so far is
\* taken as a value, p, before the next digit is added
RECURSIVE ParseName(_, _, _)
ParseName(s, k, pid) ==
    CHOOSE r \in { IF k > Len(s) THEN [valid |-> 1, pid |-> p]
                   ELSE IF ~isdigit(s[k]) THEN [valid |-> 0, pid |-> p]
                   ELSE ParseName(s, k + 1, IntMulAdd(p, DigitVal[s[k]])) :
                   p \in {pid} } : TRUE

\* the digit loop's result for every name readdir can return
d_pid == [n \in DirNames |-> ParseName(n, 1, 0)]

\* InRange letting PID_MAX itself through
InRange_OffByOne(p) == p.valid = 1 /\ ~(p.pid <= 0 \/ p.pid > PID_MAX)

\* is the entry passed on to the reads
InRange(p) == p.valid = 1 /\ ~(p.pid <= 0 \/ p.pid >= PID_MAX)

\* the slots the names of DirNames can index
Pids == { d_pid[n].pid : n \in { m \in DirNames : InRange(d_pid[m]) } }

ZeroSlot == [active |-> 0, uid |-> 0, prev_jiffies |-> 0]
ZeroUser == [uid |-> 0, cpu_ms |-> 0, name |-> ""]

VARIABLE
    passwd        \* the password database getpwuid consults

\* the name find_user stores: pw_name, or the number when getpwuid answers NULL
PwName(uid) == IF uid \in DOMAIN passwd THEN passwd[uid] ELSE ToString(uid)

\* index of the first entry of tab[0 .. cnt) with this uid, or -1
RECURSIVE ScanUsers(_, _, _, _)
ScanUsers(tab, cnt, uid, i) ==
    IF i >= cnt THEN -1
    ELSE IF tab[i].uid = uid THEN i
    ELSE ScanUsers(tab, cnt, uid, i + 1)

\* find_user without its capacity check
find_user_NoCapacity(tab, cnt, uid) ==
    LET k == ScanUsers(tab, cnt, uid, 0) IN
    IF k # -1 THEN [u |-> k, tab |-> tab, cnt |-> cnt]
    ELSE [u   |-> cnt,
          tab |-> [j \in DOMAIN tab \cup {cnt} |->
                     IF j = cnt THEN [uid |-> uid, cpu_ms |-> 0, name |-> PwName(uid)]
                     ELSE tab[j]],
          cnt |-> cnt + 1]

\* find_user_in taking the next free entry without looking for the owner
find_user_in_NoScan(max_users, tab, cnt, uid) ==
    IF cnt >= max_users THEN [u |-> -1, tab |-> tab, cnt |-> cnt]
    ELSE [u   |-> cnt,
          tab |-> [tab EXCEPT ![cnt] = [uid |-> uid, cpu_ms |-> 0, name |-> PwName(uid)]],
          cnt |-> cnt + 1]

\* find_user_in answering NULL for an owner getpwuid does not know
find_user_in_KnownOnly(max_users, tab, cnt, uid) ==
    LET k == ScanUsers(tab, cnt, uid, 0) IN
    IF k # -1 THEN [u |-> k, tab |-> tab, cnt |-> cnt]
    ELSE IF cnt >= max_users \/ uid \notin DOMAIN passwd
    THEN [u |-> -1, tab |-> tab, cnt |-> cnt]
    ELSE [u   |-> cnt,
          tab |-> [tab EXCEPT ![cnt] = [uid |-> uid, cpu_ms |-> 0, name |-> PwName(uid)]],
          cnt |-> cnt + 1]

\* find_user on a user_table of max_users entries: u is the index of the entry
\* returned, -1 for NULL
find_user_in(max_users, tab, cnt, uid) ==
    LET k == ScanUsers(tab, cnt, uid, 0) IN
    IF k # -1 THEN [u |-> k, tab |-> tab, cnt |-> cnt]
    ELSE IF cnt >= max_users THEN [u |-> -1, tab |-> tab, cnt |-> cnt]
    ELSE [u   |-> cnt,
          tab |-> [tab EXCEPT ![cnt] = [uid |-> uid, cpu_ms |-> 0, name |-> PwName(uid)]],
          cnt |-> cnt + 1]

\* find_user
find_user(tab, cnt, uid) == find_user_in(MAX_USERS, tab, cnt, uid)

\* u = find_user(uid); if (u) u->cpu_ms += ms;
Credit(tab, cnt, uid, ms) ==
    LET f == find_user(tab, cnt, uid) IN
    IF f.u = -1 THEN [tab |-> f.tab, cnt |-> f.cnt]
    ELSE [tab |-> [f.tab EXCEPT ![f.u].cpu_ms = @ + ms], cnt |-> f.cnt]

\* NewBranch crediting nothing on a regular sample either
NewBranch_NoCredit(slots, tab, cnt, pid, jiffies, uid, baseline, ticks) ==
    [slots |-> [slots EXCEPT ![pid] = [active |-> 1, uid |-> uid,
                                        prev_jiffies |-> jiffies]],
     tab |-> tab, cnt |-> cnt]

\* NewBranch that does not look at is_baseline
NewBranch_CreditAtBaseline(slots, tab, cnt, pid, jiffies, uid, baseline, ticks) ==
    LET marked == [slots EXCEPT ![pid] = [active |-> 1, uid |-> uid,
                                           prev_jiffies |-> jiffies]]
        ms == CDiv(jiffies * 1000, ticks)
    IN  IF ms > 0
        THEN LET c == Credit(tab, cnt, uid, ms)
             IN  [slots |-> marked, tab |-> c.tab, cnt |-> c.cnt]
        ELSE [slots |-> marked, tab |-> tab, cnt |-> cnt]

\* the branch of do_sample for a PID seen for the first time or with a new owner
NewBranch(slots, tab, cnt, pid, jiffies, uid, baseline, ticks) ==
    LET marked == [slots EXCEPT ![pid] = [active |-> 1, uid |-> uid,
                                           prev_jiffies |-> jiffies]]
        ms == CDiv(jiffies * 1000, ticks)
    IN  IF baseline = 1 THEN [slots |-> marked, tab |-> tab, cnt |-> cnt]
        ELSE IF ms > 0
             THEN LET c == Credit(tab, cnt, uid, ms)
                  IN  [slots |-> marked, tab |-> c.tab, cnt |-> c.cnt]
             ELSE [slots |-> marked, tab |-> tab, cnt |-> cnt]

\* KnownBranch crediting the whole counter again instead of the delta
KnownBranch_DoubleCount(slots, tab, cnt, pid, jiffies, uid, ticks) ==
    LET moved == [slots EXCEPT ![pid].prev_jiffies = jiffies]
    IN  IF jiffies > 0
        THEN LET c == Credit(tab, cnt, uid, CDiv(jiffies * 1000, ticks))
             IN  [slots |-> moved, tab |-> c.tab, cnt |-> c.cnt]
        ELSE [slots |-> moved, tab |-> tab, cnt |-> cnt]

\* KnownBranch without the clamp, crediting every delta that is not zero
KnownBranch_NoClamp(slots, tab, cnt, pid, jiffies, uid, ticks) ==
    LET delta == jiffies - slots[pid].prev_jiffies
        moved == [slots EXCEPT ![pid].prev_jiffies = jiffies]
    IN  IF delta # 0
        THEN LET c == Credit(tab, cnt, uid, CDiv(delta * 1000, ticks))
             IN  [slots |-> moved, tab |-> c.tab, cnt |-> c.cnt]
        ELSE [slots |-> moved, tab |-> tab, cnt |-> cnt]

\* KnownBranch keeping the recorded counter when the delta is clamped
KnownBranch_StaleOnClamp(slots, tab, cnt, pid, jiffies, uid, ticks) ==
    LET d == jiffies - slots[pid].prev_jiffies
    IN  IF d < 0 THEN [slots |-> slots, tab |-> tab, cnt |-> cnt]
        ELSE IF d > 0
        THEN LET c == Credit(tab, cnt, uid, CDiv(d * 1000, ticks))
             IN  [slots |-> [slots EXCEPT ![pid].prev_jiffies = jiffies],
                  tab |-> c.tab, cnt |-> c.cnt]
        ELSE [slots |-> slots, tab |-> tab, cnt |-> cnt]

\* the branch of do_sample for a known process on a regular sample
KnownBranch(slots, tab, cnt, pid, jiffies, uid, ticks) ==
    LET d     == jiffies - slots[pid].prev_jiffies
        delta == IF d < 0 THEN 0 ELSE d
        moved == [slots EXCEPT ![pid].prev_jiffies = jiffies]
    IN  IF delta > 0
        THEN LET c == Credit(tab, cnt, uid, CDiv(delta * 1000, ticks))
             IN  [slots |-> moved, tab |-> c.tab, cnt |-> c.cnt]
        ELSE [slots |-> moved, tab |-> tab, cnt |-> cnt]

\* the loop body without the check of read_proc_uid's result
LoopBody_NoUidCheck(slots, tab, cnt, name, jiffies, uid, baseline, ticks) ==
    LET p    == d_pid[name]
        same == [slots |-> slots, tab |-> tab, cnt |-> cnt]
    IN  IF ~InRange(p) THEN same
        ELSE IF jiffies < 0 THEN same
        ELSE IF slots[p.pid].active = 0 \/ slots[p.pid].uid # uid
             THEN NewBranch(slots, tab, cnt, p.pid, jiffies, uid, baseline, ticks)
        ELSE IF baseline = 0
             THEN KnownBranch(slots, tab, cnt, p.pid, jiffies, uid, ticks)
        ELSE same

\* the loop body clearing the record of a process whose stat cannot be read
LoopBody_ForgetOnNotFound(slots, tab, cnt, name, jiffies, uid, baseline, ticks) ==
    LET p    == d_pid[name]
        same == [slots |-> slots, tab |-> tab, cnt |-> cnt]
    IN  IF ~InRange(p) THEN same
        ELSE IF jiffies < 0
             THEN [slots |-> [slots EXCEPT ![p.pid] = ZeroSlot], tab |-> tab, cnt |-> cnt]
        ELSE IF uid = UID_ERR THEN same
        ELSE IF slots[p.pid].active = 0 \/ slots[p.pid].uid # uid
             THEN NewBranch(slots, tab, cnt, p.pid, jiffies, uid, baseline, ticks)
        ELSE IF baseline = 0
             THEN KnownBranch(slots, tab, cnt, p.pid, jiffies, uid, ticks)
        ELSE same

\* the body of the readdir loop for one entry
LoopBody(slots, tab, cnt, name, jiffies, uid, baseline, ticks) ==
    LET p    == d_pid[name]
        same == [slots |-> slots, tab |-> tab, cnt |-> cnt]
    IN  IF ~InRange(p) THEN same
        ELSE IF jiffies < 0 THEN same
        ELSE IF uid = UID_ERR THEN same
        ELSE IF slots[p.pid].active = 0 \/ slots[p.pid].uid # uid
             THEN NewBranch(slots, tab, cnt, p.pid, jiffies, uid, baseline, ticks)
        ELSE IF baseline = 0
             THEN KnownBranch(slots, tab, cnt, p.pid, jiffies, uid, ticks)
        ELSE same

(***************************************************************************)
(* State.                                                                  *)
(***************************************************************************)
VARIABLES
    argv,         \* the command line after argv[0]
    pc,           \* where main is: start, clock, baseline, loop, body, done, exit;
                  \* core, report or table when a part is driven on its own
    duration,     \* main's duration
    i,            \* main's loop counter
    status,       \* the exit status, -1 while running
    out,          \* the rows printed
    hz,           \* clock ticks per second
    pid_slots,    \* PidSlot per process identifier
    user_table,   \* UserEntry array
    user_count,   \* entries of user_table in use
    spc,          \* where do_sample is: idle, opendir, readdir
    is_baseline,  \* do_sample's argument
    seen,         \* the identifiers this walk has come to
    last,         \* the entry this walk handled last: the branch taken and, for
                  \* an entry read in full, what was read and the record found
    hist,         \* per identifier, its history since the baseline recorded it
    calls,        \* do_sample calls made so far
    twin,         \* the tables of a second run of the sampling core
    twin_passwd,  \* the password database of the run that is not at its step
    pend,         \* the entries the first run has read and the second has not
    ret           \* what find_user was last asked and answered, when it is
                  \* driven on its own

vars == <<argv, pc, duration, i, status, out, hz, pid_slots, user_table, user_count,
          spc, is_baseline, seen, last, hist, calls, twin, ret,
          passwd, twin_passwd, pend>>

mainVars == <<argv, pc, duration, i, status, out, hz>>
tableVars == <<pid_slots, user_table, user_count>>
walkVars == <<seen, last, hist>>
runVars == <<passwd, twin_passwd, pend>>

NoEntry == [pid |-> 0, jiffies |-> STAT_ERR, uid |-> UID_ERR, branch |-> "none",
            found |-> ZeroSlot]
NoHist == [c0 |-> -1, sum |-> 0]

\* the milliseconds the table holds for an owner, 0 when it has no entry
CpuOf(tab, cnt, uid) ==
    LET k == ScanUsers(tab, cnt, uid, 0) IN IF k = -1 THEN 0 ELSE tab[k].cpu_ms

Tracked(tab, cnt, uid) == ScanUsers(tab, cnt, uid, 0) # -1

\* pid_slots, user_table and user_count of a process just started
ZeroTables == [slots |-> [p \in Pids |-> ZeroSlot],
               tab   |-> [k \in 0 .. MAX_USERS - 1 |-> ZeroUser],
               cnt   |-> 0]

NoRet == [uid |-> 0, u |-> -1]

ZeroState ==
    /\ passwd = Passwd
    /\ pend = <<>>
    /\ pid_slots = [p \in Pids |-> ZeroSlot]
    /\ user_table = [k \in 0 .. MAX_USERS - 1 |-> ZeroUser]
    /\ user_count = 0
    /\ spc = "idle"
    /\ is_baseline = 0
    /\ seen = {}
    /\ last = NoEntry
    /\ hist = [p \in Pids |-> NoHist]
    /\ calls = 0
    /\ twin = ZeroTables
    /\ ret = NoRet
    /\ duration = 0
    /\ i = 0
    /\ status = -1
    /\ out = <<>>

Init ==
    /\ argv \in Argvs
    /\ pc = "start"
    /\ hz = 0
    /\ ZeroState
    /\ twin_passwd = Passwd

(***************************************************************************)
(* do_sample.                                                              *)
(***************************************************************************)
\* the history of the identifiers once a walk has missed those of `missed`
HistMissing(h, missed) == [q \in Pids |-> IF q \in missed THEN NoHist ELSE h[q]]

\* opendir("/proc"): the walk starts, or do_sample returns at once
OpenDir ==
    /\ spc = "opendir"
    /\ \E ok \in BOOLEAN :
          /\ spc' = IF ok THEN "readdir" ELSE "idle"
          /\ hist' = IF ok THEN hist ELSE HistMissing(hist, Pids)
    /\ seen' = {}
    /\ last' = NoEntry
    /\ UNCHANGED <<mainVars, tableVars, is_baseline, calls, twin, ret, runVars>>

\* the branch the loop body takes on an entry
Branch(slots, name, jiffies, uid, baseline) ==
    LET p == d_pid[name] IN
    IF ~InRange(p) THEN "rejected"
    ELSE IF jiffies < 0 \/ uid = UID_ERR THEN "notfound"
    ELSE IF slots[p.pid].active = 0 THEN "first"
    ELSE IF slots[p.pid].uid # uid THEN "reused"
    ELSE IF baseline = 0 THEN "known"
    ELSE "rebaseline"

\* The history of identifier q after identifier pid was read with (jiffies, uid)
\* and the loop body took branch br.  An identifier has a history from the
\* moment the baseline walk, when it is the first call of do_sample as in main
\* (first = 1), records it with an owner no other identifier has, for as long
\* as every later walk is a regular sample that reads it, with the same owner
\* and no smaller counter, and no other identifier is read with its owner.
\* c0 is the counter the baseline recorded, sum the milliseconds the regular
\* samples since owe its owner, each sample's converted on its own.
HistAfter(h, slots, q, pid, jiffies, uid, br, first, ticks) ==
    IF q # pid
    THEN IF h[q] # NoHist /\ slots[q].uid = uid THEN NoHist ELSE h[q]
    ELSE IF br \in {"first", "reused"}
    THEN IF first = 1 /\ \A o \in Pids \ {q} : slots[o].active = 0 \/ slots[o].uid # uid
         THEN [c0 |-> jiffies, sum |-> 0]
         ELSE NoHist
    ELSE IF br = "rebaseline" \/ h[q] = NoHist \/ jiffies < slots[q].prev_jiffies
    THEN NoHist
    ELSE [c0  |-> h[q].c0,
          sum |-> h[q].sum + CDiv((jiffies - slots[q].prev_jiffies) * 1000, ticks)]

\* one readdir result and the loop body run on it
ReadEntryOf(name, jiffies, uid) ==
    /\ spc = "readdir"
    /\ LET p == d_pid[name] IN
        \* a read that is not made has no result
        /\ ~InRange(p) => jiffies = STAT_ERR
        /\ jiffies < 0 => uid = UID_ERR
        \* no identifier twice in one walk
        /\ InRange(p) => p.pid \notin seen
        /\ \E r \in {LoopBody(pid_slots, user_table, user_count, name, jiffies, uid,
                              is_baseline, hz)} :
           \E br \in {Branch(pid_slots, name, jiffies, uid, is_baseline)} :
              /\ pid_slots' = r.slots
              /\ user_table' = r.tab
              /\ user_count' = r.cnt
              /\ last' = IF br \in {"rejected", "notfound"}
                         THEN [NoEntry EXCEPT !.pid = IF p.valid = 1 THEN p.pid ELSE 0,
                                              !.branch = br]
                         ELSE [pid |-> p.pid, jiffies |-> jiffies, uid |-> uid,
                               branch |-> br, found |-> pid_slots[p.pid]]
              /\ seen' = IF InRange(p) THEN seen \cup {p.pid} ELSE seen
              /\ hist' = IF br = "rejected" THEN hist
                         ELSE IF br = "notfound" THEN HistMissing(hist, {p.pid})
                         ELSE [q \in Pids |->
                                 HistAfter(hist, pid_slots, q, p.pid, jiffies, uid, br,
                                           IF calls = 1 THEN is_baseline ELSE 0, hz)]
    /\ UNCHANGED <<mainVars, spc, is_baseline, calls>>

ReadEntry ==
    \E name \in DirNames :
        \E jiffies \in IF InRange(d_pid[name]) THEN StatResults ELSE {STAT_ERR} :
            \E uid \in IF jiffies < 0 THEN {UID_ERR} ELSE UidResults :
                ReadEntryOf(name, jiffies, uid) /\ UNCHANGED <<twin, ret, runVars>>

\* one readdir result and the loop body run on it, nothing being kept of the
\* entry or of the identifiers' histories: the program's own variables only
PlainEntryOf(name, jiffies, uid) ==
    /\ spc = "readdir"
    /\ LET p == d_pid[name] IN
        /\ ~InRange(p) => jiffies = STAT_ERR
        /\ jiffies < 0 => uid = UID_ERR
        /\ InRange(p) => p.pid \notin seen
        /\ \E r \in {LoopBody(pid_slots, user_table, user_count, name, jiffies, uid,
                              is_baseline, hz)} :
              /\ pid_slots' = r.slots
              /\ user_table' = r.tab
              /\ user_count' = r.cnt
        /\ seen' = IF InRange(p) THEN seen \cup {p.pid} ELSE seen
    /\ UNCHANGED <<mainVars, spc, is_baseline, last, hist, calls>>

PlainEntry ==
    \E name \in DirNames :
        \E jiffies \in IF InRange(d_pid[name]) THEN StatResults ELSE {STAT_ERR} :
            \E uid \in IF jiffies < 0 THEN {UID_ERR} ELSE UidResults :
                PlainEntryOf(name, jiffies, uid) /\ UNCHANGED <<twin, ret, runVars>>

\* readdir returns NULL: closedir, do_sample returns
ReadEnd ==
    /\ spc = "readdir"
    /\ spc' = "idle"
    /\ last' = NoEntry
    /\ hist' = HistMissing(hist, Pids \ seen)
    /\ UNCHANGED <<mainVars, tableVars, is_baseline, seen, calls, twin, ret, runVars>>

(***************************************************************************)
(* main.                                                                   *)
(***************************************************************************)
argc == Len(argv) + 1

\* argc != 2, or duration <= 0: message on stderr, return 1
MainUsage ==
    /\ pc = "start"
    /\ \/ argc # 2 /\ UNCHANGED duration
       \/ argc = 2 /\ atoi(argv[1]) <= 0 /\ duration' = atoi(argv[1])
    /\ pc' = "exit"
    /\ status' = 1
    /\ UNCHANGED <<argv, i, out, hz, tableVars, spc, is_baseline, walkVars, calls,
                   twin, ret, runVars>>

\* duration = atoi(argv[1]); hz = sysconf(_SC_CLK_TCK)
MainStart ==
    /\ pc = "start"
    /\ argc = 2
    /\ atoi(argv[1]) > 0
    /\ duration' = atoi(argv[1])
    /\ \E r \in SysconfResults : hz' = r
    /\ pc' = "clock"
    /\ UNCHANGED <<argv, i, status, out, tableVars, spc, is_baseline, walkVars, calls,
                   twin, ret, runVars>>

\* MainClock keeping whatever sysconf answered
MainClock_NoFallback ==
    /\ pc = "clock"
    /\ pc' = "baseline"
    /\ UNCHANGED <<argv, duration, i, status, out, hz, tableVars, spc, is_baseline,
                   walkVars, calls, twin, ret, runVars>>

\* if (hz <= 0) hz = 100
MainClock ==
    /\ pc = "clock"
    /\ hz' = IF hz <= 0 THEN HZ_FALLBACK ELSE hz
    /\ pc' = "baseline"
    /\ UNCHANGED <<argv, duration, i, status, out, tableVars, spc, is_baseline,
                   walkVars, calls, twin, ret, runVars>>

\* do_sample(1)
MainBaseline ==
    /\ pc = "baseline"
    /\ spc = "idle"
    /\ spc' = "opendir"
    /\ is_baseline' = 1
    /\ calls' = calls + 1
    /\ pc' = "loop"
    /\ UNCHANGED <<argv, duration, i, status, out, hz, tableVars, walkVars, twin, ret, runVars>>

\* MainLoop calling do_sample(1) again
MainLoop_Baseline ==
    /\ pc = "loop"
    /\ spc = "idle"
    /\ i < duration
    /\ spc' = "opendir"
    /\ is_baseline' = 1
    /\ calls' = calls + 1
    /\ pc' = "body"
    /\ UNCHANGED <<argv, duration, i, status, out, hz, tableVars, walkVars, twin, ret, runVars>>

\* i < duration: sleep(1); do_sample(0)
MainLoop ==
    /\ pc = "loop"
    /\ spc = "idle"
    /\ i < duration
    /\ spc' = "opendir"
    /\ is_baseline' = 0
    /\ calls' = calls + 1
    /\ pc' = "body"
    /\ UNCHANGED <<argv, duration, i, status, out, hz, tableVars, walkVars, twin, ret, runVars>>

\* do_sample has returned: i++
MainLoopNext ==
    /\ pc = "body"
    /\ spc = "idle"
    /\ i' = i + 1
    /\ pc' = "loop"
    /\ UNCHANGED <<argv, duration, status, out, hz, tableVars, spc, is_baseline,
                   walkVars, calls, twin, ret, runVars>>

\* cmp_cpu_desc(a, b) <= 0 for every a placed before b
SortedDesc(tab, cnt) ==
    \A a, b \in 0 .. cnt - 1 : a < b => tab[a].cpu_ms >= tab[b].cpu_ms

\* what qsort may leave in user_table: the used entries in an order cmp_cpu_desc
\* accepts; entries that compare equal may come in any order
Sorted(tab, cnt) ==
    { [k \in DOMAIN tab |-> IF k < cnt THEN tab[f[k]] ELSE tab[k]] :
        f \in { g \in [0 .. cnt - 1 -> 0 .. cnt - 1] :
                  /\ \A a, b \in 0 .. cnt - 1 : a # b => g[a] # g[b]
                  /\ SortedDesc([k \in 0 .. cnt - 1 |-> tab[g[k]]], cnt) } }

\* Rows without the test of cpu_ms
RECURSIVE Rows_NoSkip(_, _, _, _)
Rows_NoSkip(tab, cnt, k, rank) ==
    IF k >= cnt THEN <<>>
    ELSE <<[rank |-> rank, name |-> tab[k].name, cpu_ms |-> tab[k].cpu_ms]>>
         \o Rows_NoSkip(tab, cnt, k + 1, rank + 1)

\* the rows the print loop emits for tab[k .. cnt), the next rank being rank
RECURSIVE Rows(_, _, _, _)
Rows(tab, cnt, k, rank) ==
    IF k >= cnt THEN <<>>
    ELSE IF tab[k].cpu_ms <= 0 THEN Rows(tab, cnt, k + 1, rank)
    ELSE <<[rank |-> rank, name |-> tab[k].name, cpu_ms |-> tab[k].cpu_ms]>>
         \o Rows(tab, cnt, k + 1, rank + 1)

\* the loop is over: qsort, print, return 0
MainReport ==
    /\ pc = "loop"
    /\ spc = "idle"
    /\ ~(i < duration)
    /\ user_table' \in Sorted(user_table, user_count)
    /\ out' = Rows(user_table', user_count, 0, 1)
    /\ status' = 0
    /\ pc' = "done"
    /\ UNCHANGED <<argv, duration, i, hz, pid_slots, user_count, spc, is_baseline,
                   walkVars, calls, twin, ret, runVars>>

Next ==
    \/ MainUsage
    \/ MainStart
    \/ MainClock
    \/ MainBaseline
    \/ MainLoop
    \/ MainLoopNext
    \/ MainReport
    \/ OpenDir
    \/ ReadEntry
    \/ ReadEnd

Spec == Init /\ [][Next]_vars

\* Every statement of main and of do_sample returns, sleep(1) included, and
\* /proc has finitely many entries: readdir answers NULL in the end.  How many
\* entries it answers before that is left open.
Progress ==
    \/ MainUsage
    \/ MainStart
    \/ MainClock
    \/ MainBaseline
    \/ MainLoop
    \/ MainLoopNext
    \/ MainReport
    \/ OpenDir
    \/ ReadEnd

\* main and do_sample with the program's own variables only
PlainNext ==
    \/ MainUsage
    \/ MainStart
    \/ MainClock
    \/ MainBaseline
    \/ MainLoop
    \/ MainLoopNext
    \/ MainReport
    \/ OpenDir
    \/ PlainEntry
    \/ ReadEnd

FairSpec == Init /\ [][PlainNext]_vars /\ WF_vars(Progress)

(***************************************************************************)
(* The sampling core on its own: do_sample called in any order, with any   *)
(* argument, after hz was set as main sets it.                             *)
(***************************************************************************)
CoreInit ==
    /\ argv = <<>>
    /\ pc = "core"
    /\ hz \in { IF r <= 0 THEN HZ_FALLBACK ELSE r : r \in SysconfResults }
    /\ ZeroState
    /\ twin_passwd = Passwd

CoreCall ==
    /\ pc = "core"
    /\ spc = "idle"
    /\ calls < MaxCalls
    /\ \E b \in {0, 1} : is_baseline' = b
    /\ spc' = "opendir"
    /\ calls' = calls + 1
    /\ UNCHANGED <<mainVars, tableVars, walkVars, twin, ret, runVars>>

CoreNext ==
    \/ CoreCall
    \/ OpenDir
    \/ ReadEntry
    \/ ReadEnd

CoreSpec == CoreInit /\ [][CoreNext]_vars

(***************************************************************************)
(* The report on its own: main has left its loop, and user_table holds any *)
(* accumulators the samples can have left, each owner once.  The report    *)
(* reads user_table and user_count only.                                   *)
(***************************************************************************)
\* owners and milliseconds of the accumulators the report is given
ReportUids == {0, 1000, 1001}
ReportMs == {0, 1500, 3200}

\* the tables of TableUsers entries with cnt in use
ReportTables(cnt) ==
    { [k \in 0 .. TableUsers - 1 |->
         IF k < cnt THEN [uid |-> u[k], cpu_ms |-> m[k], name |-> PwName(u[k])]
         ELSE ZeroUser] :
        u \in { f \in [0 .. cnt - 1 -> ReportUids] :
                  \A a, b \in 0 .. cnt - 1 : a # b => f[a] # f[b] },
        m \in [0 .. cnt - 1 -> ReportMs] }

ReportInit ==
    /\ passwd = Passwd
    /\ twin_passwd = Passwd
    /\ pend = <<>>
    /\ argv = <<DecStr(MaxDuration)>>
    /\ pc = "loop"
    /\ duration = MaxDuration
    /\ i = MaxDuration
    /\ status = -1
    /\ out = <<>>
    /\ hz = HZ_FALLBACK
    /\ pid_slots = ZeroTables.slots
    /\ user_count \in 0 .. TableUsers
    /\ user_table \in ReportTables(user_count)
    /\ spc = "idle"
    /\ is_baseline = 0
    /\ seen = {}
    /\ last = NoEntry
    /\ hist = [p \in Pids |-> NoHist]
    /\ calls = MaxDuration + 1
    /\ twin = ZeroTables
    /\ ret = NoRet

ReportNext == MainReport

ReportSpec == ReportInit /\ [][ReportNext]_vars

(***************************************************************************)
(* find_user on its own: called with any owner on any table of TableUsers  *)
(* entries the samples can have left, each owner once, and on the tables   *)
(* its own calls leave.                                                    *)
(***************************************************************************)
\* the owners find_user is asked for
TableUids == ReportUids \cup {1002}

TableInit ==
    /\ passwd = Passwd
    /\ twin_passwd = Passwd
    /\ pend = <<>>
    /\ argv = <<DecStr(MaxDuration)>>
    /\ pc = "table"
    /\ duration = MaxDuration
    /\ i = 0
    /\ status = -1
    /\ out = <<>>
    /\ hz = HZ_FALLBACK
    /\ pid_slots = ZeroTables.slots
    /\ user_count \in 0 .. TableUsers
    /\ user_table \in ReportTables(user_count)
    /\ spc = "idle"
    /\ is_baseline = 0
    /\ seen = {}
    /\ last = NoEntry
    /\ hist = [p \in Pids |-> NoHist]
    /\ calls = 0
    /\ twin = ZeroTables
    /\ ret = NoRet

\* u = find_user(uid)
TableFind ==
    /\ pc = "table"
    /\ \E uid \in TableUids :
        \E f \in {find_user_in(TableUsers, user_table, user_count, uid)} :
            /\ user_table' = f.tab
            /\ user_count' = f.cnt
            /\ ret' = [uid |-> uid, u |-> f.u]
    /\ UNCHANGED <<mainVars, pid_slots, spc, is_baseline, walkVars, calls, twin,
                   runVars>>

TableNext == TableFind

TableSpec == TableInit /\ [][TableNext]_vars

(***************************************************************************)
(* The sampling core run twice from the all-zero state with the same hz.   *)
(* Both runs are called with the same argument and come to the same        *)
(* entries, with the same answers, in the same order: the first run reads  *)
(* an entry, then the second reads it.  What the runs are not given alike  *)
(* is the password database, which is no part of a process-table snapshot: *)
(* the second run may find one that knows no owner.                        *)
(***************************************************************************)
DetInit ==
    /\ argv = <<>>
    /\ pc = "core"
    /\ hz \in { IF r <= 0 THEN HZ_FALLBACK ELSE r : r \in SysconfResults }
    /\ ZeroState
    /\ twin_passwd \in PasswdDbs

\* the loop body of the second run on an entry
TwinBody(name, jiffies, uid) ==
    LoopBody(twin.slots, twin.tab, twin.cnt, name, jiffies, uid, is_baseline, hz)

\* the first run comes to an entry; the second run is at its step next
DetReadEntry ==
    /\ pend = <<>>
    /\ \E name \in DirNames :
        \E jiffies \in IF InRange(d_pid[name]) THEN StatResults ELSE {STAT_ERR} :
            \E uid \in IF jiffies < 0 THEN {UID_ERR} ELSE UidResults :
                /\ PlainEntryOf(name, jiffies, uid)
                /\ pend' = <<[name |-> name, jiffies |-> jiffies, uid |-> uid]>>
    /\ passwd' = twin_passwd
    /\ twin_passwd' = passwd
    /\ UNCHANGED <<twin, ret>>

\* the second run comes to the same entry, with the same answers
DetTwinEntry ==
    /\ pend # <<>>
    /\ twin' = TwinBody(pend[1].name, pend[1].jiffies, pend[1].uid)
    /\ pend' = <<>>
    /\ passwd' = twin_passwd
    /\ twin_passwd' = passwd
    /\ UNCHANGED <<mainVars, tableVars, spc, is_baseline, walkVars, calls, ret>>

\* the calls, and the start and the end of a walk, are those of both runs
DetNext ==
    \/ pend = <<>> /\ CoreCall
    \/ pend = <<>> /\ OpenDir
    \/ DetReadEntry
    \/ DetTwinEntry
    \/ pend = <<>> /\ ReadEnd

DetSpec == DetInit /\ [][DetNext]_vars

(***************************************************************************)
(* Properties.                                                             *)
(***************************************************************************)
Cpu(uid) == CpuOf(user_table, user_count, uid)
CpuNext(uid) == CpuOf(user_table', user_count', uid)

\* this step is one pass of the readdir loop on an entry
ReadStep == spc = "readdir" /\ last'.branch # "none"

\* the entry of this step was read in full and reached the classification
Classified(e) == e.branch \in {"first", "reused", "known", "rebaseline"}

\* the owner has an accumulator, or find_user can still create one
CanTrack(uid) == Tracked(user_table, user_count, uid) \/ user_count < MAX_USERS

(***************************************************************************)
(* C1.  No-double-count.                                                   *)
(***************************************************************************)
\* the regular samples main has completed
Completed == (pc = "loop" \/ pc = "done") /\ spc = "idle"

\* p was read with one owner by the baseline walk and by every regular sample
\* since, its counter never falling, and no other identifier had that owner
Followed(p) == hist[p] # NoHist

\* (cN - c0) * 1000 / hz, one division
Whole(p) == CDiv((pid_slots[p].prev_jiffies - hist[p].c0) * 1000, hz)

\* C1 as claimed: for every hz and every table, after sample N the owner of a
\* followed identifier holds (cN - c0) * 1000 / hz milliseconds.
C1_SingleDivision ==
    Completed =>
        \A p \in Pids : Followed(p) => Cpu(pid_slots[p].uid) = Whole(p)

\* C1 with the table's capacity set aside, still as one division: the claim
\* fails for the conversion alone (hz = 1024, counters 0, 1, 2: 0 ms, not 1).
C1_SingleDivisionIfTracked ==
    Completed =>
        \A p \in Pids :
            Followed(p) /\ CanTrack(pid_slots[p].uid) =>
                Cpu(pid_slots[p].uid) = Whole(p)

\* C1 amended: when the owner has an accumulator or the table has room, after
\* sample N the owner of a followed identifier holds the sum over the N ticks of
\* (c_k - c_(k-1)) * 1000 / hz, each tick divided on its own; that is
\* (cN - c0) * 1000 / hz when hz divides 1000, and never more than it.
C1_PerTickSum ==
    Completed =>
        \A p \in Pids :
            Followed(p) /\ CanTrack(pid_slots[p].uid) =>
                /\ Cpu(pid_slots[p].uid) = hist[p].sum
                /\ Cpu(pid_slots[p].uid) <= Whole(p)
                /\ 1000 % hz = 0 => Cpu(pid_slots[p].uid) = Whole(p)

\* two ticks were sampled, a followed identifier's counter went from 0 to 2
\* over them, and its owner holds what the ticks add up to
C1_Witness ==
    /\ Completed
    /\ i = 2
    /\ \E p \in Pids :
          /\ Followed(p)
          /\ hist[p].c0 = 0
          /\ pid_slots[p].prev_jiffies = 2
          /\ hz = HZ_FALLBACK
          /\ Cpu(pid_slots[p].uid) = 20

(***************************************************************************)
(* C2.  New-process full-attribution.                                      *)
(***************************************************************************)
\* C2 as claimed: an identifier without a record, read on a regular sample
\* with counter c, adds c * 1000 / hz to its owner's cpu_ms on that step.
C2_FullCounter ==
    [][ReadStep /\ is_baseline = 0 /\ last'.branch = "first" =>
          CpuNext(last'.uid) = Cpu(last'.uid) + CDiv(last'.jiffies * 1000, hz)]_vars

\* C2 amended: it adds c * 1000 / hz when its owner has an accumulator or the
\* table has room; when the table is full of other owners it adds nothing and
\* the table is left as it was.
C2_FullCounterIfTracked ==
    [][ReadStep /\ is_baseline = 0 /\ last'.branch = "first" =>
          IF CanTrack(last'.uid)
          THEN CpuNext(last'.uid) = Cpu(last'.uid) + CDiv(last'.jiffies * 1000, hz)
          ELSE user_table' = user_table /\ user_count' = user_count]_vars

\* a regular sample has just read an identifier that had no record, and its
\* owner holds the whole counter in milliseconds
C2_Witness ==
    /\ spc = "readdir"
    /\ is_baseline = 0
    /\ last.branch = "first"
    /\ last.jiffies = 2
    /\ hz = HZ_FALLBACK
    /\ Cpu(last.uid) = 20

(***************************************************************************)
(* C3.  PID-reuse correctness.                                             *)
(***************************************************************************)
\* the step reads, on a regular sample, an identifier whose record has
\* another owner and a larger counter
ReuseStep ==
    /\ ReadStep
    /\ is_baseline = 0
    /\ last'.branch = "reused"
    /\ last'.jiffies < pid_slots[last'.pid].prev_jiffies

\* what a reuse step does to the record and to the old owner
ReuseFrame ==
    /\ pid_slots'[last'.pid] =
          [active |-> 1, uid |-> last'.uid, prev_jiffies |-> last'.jiffies]
    /\ CpuNext(pid_slots[last'.pid].uid) = Cpu(pid_slots[last'.pid].uid)

\* C3 as claimed: the step adds c1 * 1000 / hz to B, nothing to A, and the
\* record becomes (active, B, c1).
C3_Reuse ==
    [][ReuseStep =>
          /\ ReuseFrame
          /\ CpuNext(last'.uid) = Cpu(last'.uid) + CDiv(last'.jiffies * 1000, hz)]_vars

\* C3 amended: the same, B's share being added when B has an accumulator or
\* the table has room, and dropped, with the table left as it was, when the
\* table is full of other owners.
C3_ReuseIfTracked ==
    [][ReuseStep =>
          /\ ReuseFrame
          /\ IF CanTrack(last'.uid)
             THEN CpuNext(last'.uid) = Cpu(last'.uid) + CDiv(last'.jiffies * 1000, hz)
             ELSE user_table' = user_table /\ user_count' = user_count]_vars

\* the first regular sample has just read, with owner B and counter 1, an
\* identifier the baseline recorded with owner A and counter 2; B holds 10 ms
C3_Witness ==
    /\ spc = "readdir"
    /\ is_baseline = 0
    /\ calls = 2
    /\ pc = "body"
    /\ last.branch = "reused"
    /\ last.found.prev_jiffies = 2
    /\ last.jiffies = 1
    /\ hz = HZ_FALLBACK
    /\ Cpu(last.uid) = 10
    /\ Cpu(last.found.uid) = 0
    /\ pid_slots[last.pid] = [active |-> 1, uid |-> last.uid, prev_jiffies |-> 1]

(***************************************************************************)
(* C4.  Monotonicity.                                                      *)
(***************************************************************************)
\* C4: on every step, whatever do_sample is called with and whatever /proc
\* holds, every accumulator stays in the table with the same owner and a
\* cpu_ms that is not smaller, and user_count does not shrink.
C4_Monotone ==
    [][/\ user_count' >= user_count
       /\ \A k \in 0 .. user_count - 1 :
             /\ user_table'[k].uid = user_table[k].uid
             /\ user_table'[k].cpu_ms >= user_table[k].cpu_ms]_vars

\* a known identifier was just read with a counter below the recorded one,
\* and its owner still holds the milliseconds credited before
C4_Witness ==
    /\ spc = "readdir"
    /\ is_baseline = 0
    /\ last.branch = "known"
    /\ last.jiffies < last.found.prev_jiffies
    /\ Cpu(last.uid) = 20

(***************************************************************************)
(* C5.  Baseline-exclusion.                                                *)
(***************************************************************************)
\* C5: an identifier the baseline recorded with counter c0, read by every
\* sample since with the same owner and the same counter, has added nothing:
\* its owner, whom no other identifier has, holds 0 ms after any number of
\* ticks; and whoever else has the owner, a regular sample's read of a known
\* identifier with the counter its record holds changes no accumulator.
C5_BaselineExcluded ==
    /\ [](\A p \in Pids :
             hist[p] # NoHist /\ pid_slots[p].prev_jiffies = hist[p].c0 =>
                 Cpu(pid_slots[p].uid) = 0)
    /\ [][/\ ReadStep
          /\ is_baseline = 0
          /\ last'.branch = "known"
          /\ last'.jiffies = pid_slots[last'.pid].prev_jiffies
          => user_table' = user_table /\ user_count' = user_count]_vars

\* two regular samples read an identifier whose counter stayed at the 2 the
\* baseline recorded
C5_Witness ==
    /\ Completed
    /\ i = 2
    /\ \E p \in Pids :
          /\ Followed(p)
          /\ hist[p].c0 = 2
          /\ pid_slots[p].prev_jiffies = 2
          /\ Cpu(pid_slots[p].uid) = 0

(***************************************************************************)
(* C6.  Baseline attributes nothing.                                       *)
(***************************************************************************)
\* C6: no step of do_sample(1), in any state, changes user_table or
\* user_count; a record it changes is that of the entry read, which had no
\* record or another owner, and becomes (active, owner read, counter read).
C6_BaselineFrame ==
    [][is_baseline = 1 /\ spc # "idle" =>
          /\ user_table' = user_table
          /\ user_count' = user_count
          /\ \A p \in Pids :
                pid_slots'[p] # pid_slots[p] =>
                    /\ ReadStep
                    /\ p = last'.pid
                    /\ last'.branch \in {"first", "reused"}
                    /\ pid_slots'[p] = [active |-> 1, uid |-> last'.uid,
                                        prev_jiffies |-> last'.jiffies]]_vars

\* a baseline walk made after milliseconds were credited has just recorded a
\* new identifier with a counter above 0
C6_Witness ==
    /\ spc = "readdir"
    /\ is_baseline = 1
    /\ last.branch = "first"
    /\ last.jiffies = 2
    /\ user_count = 1
    /\ user_table[0].cpu_ms > 0
    /\ Cpu(last.uid) = 0

(***************************************************************************)
(* C7.  Negative-delta guard.                                              *)
(***************************************************************************)
\* C7: on a regular sample, reading a known identifier with its recorded
\* owner and a counter below the recorded one changes no accumulator.
C7_NoNegativeDelta ==
    [][/\ ReadStep
       /\ is_baseline = 0
       /\ last'.branch = "known"
       /\ last'.jiffies < pid_slots[last'.pid].prev_jiffies
       => user_table' = user_table /\ user_count' = user_count]_vars

\* main's second regular sample has just read a counter of 0 for an identifier
\* recorded with 2, whose owner keeps the 10 ms credited on the first
C7_Witness ==
    /\ spc = "readdir"
    /\ pc = "body"
    /\ i = 1
    /\ last.branch = "known"
    /\ last.found.prev_jiffies = 2
    /\ last.jiffies = 0
    /\ pid_slots[last.pid].prev_jiffies = 0
    /\ Cpu(last.uid) = 10

(***************************************************************************)
(* C8.  Repeated baseline.                                                 *)
(***************************************************************************)
\* C8 as claimed: do_sample(1) reading an identifier that has an active
\* record with the same owner sets the record's counter to the one read and
\* adds nothing to any accumulator.
C8_RebaselineRefreshes ==
    [][ReadStep /\ is_baseline = 1 /\ last'.branch = "rebaseline" =>
          /\ pid_slots'[last'.pid].prev_jiffies = last'.jiffies
          /\ user_table' = user_table
          /\ user_count' = user_count]_vars

(***************************************************************************)
(* C9.  Skip-on-NotFound.                                                  *)
(***************************************************************************)
\* C9: when read_proc_stat or read_proc_uid fails for an entry, the records
\* and the accumulators are left as they were, and the walk stays in its loop
\* with the same argument, ready for the next entry.
C9_SkipNotFound ==
    [][ReadStep /\ last'.branch = "notfound" =>
          /\ pid_slots' = pid_slots
          /\ user_table' = user_table
          /\ user_count' = user_count
          /\ spc' = "readdir"
          /\ is_baseline' = is_baseline
          /\ hz' = hz]_vars

\* a regular sample skipped one identifier, which still has no record, and
\* then read the other and credited its owner
C9_Witness ==
    /\ spc = "readdir"
    /\ is_baseline = 0
    /\ seen = Pids
    /\ last.branch = "first"
    /\ last.jiffies = 1
    /\ Cpu(last.uid) > 0
    /\ \E p \in Pids \ {last.pid} : pid_slots[p].active = 0

(***************************************************************************)
(* C10.  Accumulator table exhaustion.                                     *)
(***************************************************************************)
\* the milliseconds the step owes the owner of the entry read
Owed(e) ==
    IF e.branch = "known"
    THEN IF e.jiffies > e.found.prev_jiffies
         THEN CDiv((e.jiffies - e.found.prev_jiffies) * 1000, hz) ELSE 0
    ELSE CDiv(e.jiffies * 1000, hz)

\* C10: user_count never exceeds MAX_USERS; with the table full, a regular
\* sample's read of an owner without an accumulator changes neither the table
\* nor user_count and leaves the walk in its loop, and its read of an owner
\* with an accumulator adds what the step owes that owner.
C10_Exhaustion ==
    /\ [](user_count <= MAX_USERS)
    /\ [][/\ ReadStep
          /\ is_baseline = 0
          /\ last'.branch \in {"first", "reused", "known"}
          /\ user_count = MAX_USERS
          => IF Tracked(user_table, user_count, last'.uid)
             THEN /\ CpuNext(last'.uid) = Cpu(last'.uid) + Owed(last')
                  /\ user_count' = user_count
             ELSE /\ user_table' = user_table
                  /\ user_count' = user_count
                  /\ spc' = "readdir"]_vars

\* the table is full of another owner, and a regular sample has just read a
\* new identifier whose 20 ms were dropped
C10_Witness ==
    /\ spc = "readdir"
    /\ is_baseline = 0
    /\ user_count = MAX_USERS
    /\ last.branch = "first"
    /\ last.jiffies = 2
    /\ hz = HZ_FALLBACK
    /\ ~Tracked(user_table, user_count, last.uid)
    /\ \A k \in 0 .. user_count - 1 : user_table[k].cpu_ms > 0

\* rows ranked 1, 2, ..., k
ReportOf(rows, tab, cnt) ==
    /\ Len(rows) = Cardinality({ k \in 0 .. cnt - 1 : tab[k].cpu_ms > 0 })
    /\ \A k \in 0 .. cnt - 1 :
          tab[k].cpu_ms > 0 =>
              \E r \in 1 .. Len(rows) :
                  rows[r].name = tab[k].name /\ rows[r].cpu_ms = tab[k].cpu_ms
    /\ \A r \in 1 .. Len(rows) : rows[r].rank = r
    /\ \A r, q \in 1 .. Len(rows) : r < q => rows[r].cpu_ms >= rows[q].cpu_ms

\* C12: whatever accumulators the samples left, the rows main prints are
\* exactly the owners with cpu_ms > 0, in non-increasing order of cpu_ms,
\* ranked 1, 2, ..., k over the rows printed.
C12_Report ==
    [][pc = "loop" /\ pc' = "done" => ReportOf(out', user_table, user_count)]_vars

\* three accumulators, one of them with 0 ms, were reported as two rows:
\* 3200 ms with rank 1, then 1500 ms with rank 2
C12_Witness ==
    /\ pc = "done"
    /\ user_count = 3
    /\ \E k \in 0 .. user_count - 1 : user_table[k].cpu_ms = 0
    /\ Len(out) = 2
    /\ out[1].rank = 1 /\ out[1].cpu_ms = 3200
    /\ out[2].rank = 2 /\ out[2].cpu_ms = 1500

(***************************************************************************)
(* C13.  Driver ordering and termination.                                  *)
(***************************************************************************)
\* C13: the first call of do_sample, and no other, is the baseline; main
\* reports after duration regular samples, duration + 1 calls in all, and not
\* before; nothing happens after the report; and a run whose arguments were
\* accepted comes to its report.
C13_Driver ==
    /\ [](calls > 0 => (is_baseline = 1 <=> calls = 1))
    /\ [](pc = "done" => calls = duration + 1 /\ i = duration /\ spc = "idle")
    /\ [](pc \in {"clock", "baseline", "loop", "body"} =>
             out = <<>> /\ status = -1 /\ duration > 0 /\ calls <= duration + 1)
    /\ [][pc # "done" /\ pc' = "done" => status' = 0 /\ out' = Rows(user_table', user_count', 0, 1)]_vars
    /\ [][pc # "done"]_vars
    /\ (pc = "clock" ~> pc = "done")

\* main has reported after a baseline and two regular samples
C13_Witness ==
    /\ pc = "done"
    /\ duration = 2
    /\ calls = 3
    /\ i = 2
    /\ status = 0
    /\ Len(out) = 1

(***************************************************************************)
(* C14.  Usage error.                                                      *)
(***************************************************************************)
\* the text is a positive integer: digits only, and not zero
IsPositiveInteger(s) ==
    /\ Len(s) > 0
    /\ \A k \in 1 .. Len(s) : isdigit(s[k])
    /\ \E k \in 1 .. Len(s) : s[k] # "0"

\* main has returned 1 having sampled and printed nothing, or has yet to look
\* at its arguments
Refused ==
    /\ pc \in {"start", "exit"}
    /\ pc = "exit" => status = 1
    /\ calls = 0
    /\ spc = "idle"
    /\ out = <<>>
    /\ pid_slots = ZeroTables.slots
    /\ user_table = ZeroTables.tab
    /\ user_count = 0

\* C14 as claimed: when the duration argument is missing, or there are more
\* arguments, or the argument is not a positive integer, main returns a
\* non-zero status without a sample or a report, and the records and the
\* accumulators stay as they began.
C14_UsageError ==
    ~(Len(argv) = 1 /\ IsPositiveInteger(argv[1])) => Refused

\* what main does refuse: no argument or several, or one that atoi reads as
\* zero or less; an argument atoi reads as positive is accepted whatever
\* follows its digits
C14_UsageErrorByAtoi ==
    ~(Len(argv) = 1 /\ atoi(argv[1]) > 0) => Refused

(***************************************************************************)
(* C15.  Same-owner PID reuse.                                             *)
(***************************************************************************)
\* the step reads, on a regular sample, an identifier that has an active
\* record with the owner read, whatever process the identifier names now and
\* whichever samples came to it before
KnownStep == ReadStep /\ is_baseline = 0 /\ last'.branch = "known"

\* C15 as claimed: the step adds max(0, c - lastCpuTicks) * 1000 / hz to the
\* owner's cpu_ms.
C15_Continuation ==
    [][KnownStep => CpuNext(last'.uid) = Cpu(last'.uid) + Owed(last')]_vars

\* C15 amended: the step adds max(0, c - lastCpuTicks) * 1000 / hz, not
\* c * 1000 / hz, when the owner has an accumulator or the table has room, and
\* leaves the table as it was when the table is full of other owners; either
\* way it changes no other owner's cpu_ms and the record's counter becomes c.
C15_ContinuationIfTracked ==
    [][KnownStep =>
          /\ IF CanTrack(last'.uid)
             THEN CpuNext(last'.uid) = Cpu(last'.uid) + Owed(last')
             ELSE user_table' = user_table /\ user_count' = user_count
          /\ \A u \in Uids \ {last'.uid} : CpuNext(u) = Cpu(u)
          /\ pid_slots'[last'.pid] = [active |-> 1, uid |-> last'.uid,
                                      prev_jiffies |-> last'.jiffies]]_vars

\* main's second regular sample has just read counter 2 for an identifier
\* recorded with the same owner and counter 1; the owner holds the 10 ms of
\* the excess and nothing else, not the 20 ms of the counter
C15_Witness ==
    /\ spc = "readdir"
    /\ pc = "body"
    /\ i = 1
    /\ last.branch = "known"
    /\ last.found.prev_jiffies = 1
    /\ last.jiffies = 2
    /\ hz = HZ_FALLBACK
    /\ Cpu(last.uid) = 10
    /\ pid_slots[last.pid].prev_jiffies = 2

(***************************************************************************)
(* C16.  Record tracks last observation.                                   *)
(***************************************************************************)
\* C16: on a regular sample, reading an identifier in full leaves its record
\* active with the owner and the counter read, whatever the delta and whether
\* or not the owner has or gets an accumulator; and no later step of the walk
\* changes the record of an identifier the walk has come to, so the record
\* still holds what was read when the sample ends.
C16_RecordTracks ==
    [][/\ ReadStep /\ is_baseline = 0 /\ Classified(last') =>
             pid_slots'[last'.pid] = [active |-> 1, uid |-> last'.uid,
                                      prev_jiffies |-> last'.jiffies]
       /\ spc = "readdir" => \A p \in seen : pid_slots'[p] = pid_slots[p]]_vars

\* a regular sample has just read a known identifier with a counter below the
\* recorded one, its owner has no accumulator and the table is full, and the
\* record holds the counter read
C16_Witness ==
    /\ spc = "readdir"
    /\ is_baseline = 0
    /\ last.branch = "known"
    /\ last.jiffies < last.found.prev_jiffies
    /\ user_count = MAX_USERS
    /\ ~Tracked(user_table, user_count, last.uid)
    /\ pid_slots[last.pid] = [active |-> 1, uid |-> last.uid,
                              prev_jiffies |-> last.jiffies]

(***************************************************************************)
(* C17.  Owner uniqueness.                                                 *)
(***************************************************************************)
\* no two entries of tab[0 .. cnt) have the same owner
UniqueOwners(tab, cnt) ==
    \A a, b \in 0 .. cnt - 1 : a # b => tab[a].uid # tab[b].uid

\* C17: no two entries of user_table[0 .. user_count) have the same owner;
\* find_user answers the entry of the owner when there is one and changes
\* nothing; when there is none and the table has room it takes the next entry,
\* with that owner and cpu_ms = 0, and leaves the others as they were; when
\* there is none and the table is full it answers NULL and changes nothing.
C17_UniqueOwners ==
    /\ [](UniqueOwners(user_table, user_count))
    /\ [][pc = "table" =>
            IF \E k \in 0 .. user_count - 1 : user_table[k].uid = ret'.uid
            THEN /\ ret'.u \in 0 .. user_count - 1
                 /\ user_table[ret'.u].uid = ret'.uid
                 /\ user_table' = user_table
                 /\ user_count' = user_count
            ELSE IF user_count < TableUsers
            THEN /\ ret'.u = user_count
                 /\ user_count' = user_count + 1
                 /\ user_table'[ret'.u].uid = ret'.uid
                 /\ user_table'[ret'.u].cpu_ms = 0
                 /\ \A k \in 0 .. user_count - 1 : user_table'[k] = user_table[k]
            ELSE /\ ret'.u = -1
                 /\ user_table' = user_table
                 /\ user_count' = user_count]_vars

\* find_user has just answered the second entry, one of three in use whose
\* owner has 1500 ms, for that entry's owner
C17_Witness ==
    /\ pc = "table"
    /\ user_count = 3
    /\ ret.u = 1
    /\ user_table[1].uid = ret.uid
    /\ user_table[1].cpu_ms = 1500
    /\ UniqueOwners(user_table, user_count)

(***************************************************************************)
(* C18.  Inert records.                                                    *)
(***************************************************************************)
\* C18: a step changes a record only when it is a pass of the readdir loop on
\* that identifier with both reads answered; the records of the identifiers a
\* sample does not come to, or skips, are therefore as they were when the
\* sample ends; and no step, of any sample, clears an active flag.
C18_InertRecords ==
    [][\A p \in Pids :
          /\ pid_slots'[p] # pid_slots[p] =>
                ReadStep /\ last'.pid = p /\ Classified(last')
          /\ pid_slots[p].active = 1 => pid_slots'[p].active = 1]_vars

\* the second call has ended having read one identifier and not the other,
\* whose record is still active with the counter 2 the first call recorded
C18_Witness ==
    /\ spc = "idle"
    /\ calls = 2
    /\ seen # {}
    /\ \E p \in Pids \ seen :
          /\ pid_slots[p].active = 1
          /\ pid_slots[p].prev_jiffies = 2
    /\ \E q \in seen : pid_slots[q].active = 1

(***************************************************************************)
(* C19.  Clock resolution.                                                 *)
(***************************************************************************)
\* C19: hz is written at startup only, before the baseline: it takes what
\* sysconf answers and keeps it when that is > 0, and becomes 100 otherwise;
\* from then on, and so whenever do_sample runs and divides by it, it is
\* positive, and no step changes it.
C19_Clock ==
    /\ [][hz' # hz => pc \in {"start", "clock"} /\ calls = 0]_vars
    /\ [][pc = "start" /\ pc' = "clock" => hz' \in SysconfResults]_vars
    /\ [][pc = "clock" => hz' = IF hz > 0 THEN hz ELSE HZ_FALLBACK]_vars
    /\ [](pc \in {"baseline", "loop", "body", "done"} \/ spc # "idle" \/ calls > 0
             => hz > 0)

\* sysconf answered nothing usable
C19_FallbackWitness ==
    /\ pc = "clock"
    /\ hz <= 0

\* a regular sample has converted a counter of 2 with hz = 100
C19_Witness ==
    /\ pc = "body"
    /\ spc = "readdir"
    /\ hz = HZ_FALLBACK
    /\ last.branch = "first"
    /\ last.jiffies = 2
    /\ Cpu(last.uid) = 20

(***************************************************************************)
(* C20.  PID range guard.                                                  *)
(***************************************************************************)
\* C20: pid_slots is indexed by 1 .. PID_MAX - 1 only: a pass of the readdir
\* loop that goes on to the reads has an identifier in that range, and a pass
\* on an identifier <= 0 or >= PID_MAX is skipped with no read made and with
\* the records, the accumulators and user_count as they were, on every sample.
C20_RangeGuard ==
    /\ [](DOMAIN pid_slots \subseteq 1 .. PID_MAX - 1)
    /\ [][ReadStep =>
            /\ last'.branch # "rejected" => last'.pid \in 1 .. PID_MAX - 1
            /\ last'.pid \notin 1 .. PID_MAX - 1 =>
                  /\ last'.branch = "rejected"
                  /\ last'.jiffies = STAT_ERR
                  /\ last'.uid = UID_ERR
                  /\ pid_slots' = pid_slots
                  /\ user_table' = user_table
                  /\ user_count' = user_count]_vars

\* a regular sample that has credited an owner has just come to the
\* identifier PID_MAX and skipped it
C20_Witness ==
    /\ spc = "readdir"
    /\ is_baseline = 0
    /\ last.branch = "rejected"
    /\ last.pid = PID_MAX
    /\ seen # {}
    /\ user_count = 1
    /\ user_table[0].cpu_ms > 0

====
